---- MODULE Spec2Model ----
(***************************************************************************)
(* Authentication and token-lifecycle core of the contact-book API:        *)
(* src/src/services/auth.py (class Auth) and src/src/routes/auth.py.       *)
(*                                                                         *)
(* A token is the record [claims, sig]: claims is the JWT payload (a       *)
(* record whose fields are the claims that are present), sig tells whether *)
(* the string verifies under SECRET_KEY ("valid"), carries a signature     *)
(* that does not verify ("forged") or is not a JWT at all ("malformed").   *)
(* jwt.encode is deterministic (HMAC over the JSON of the claims, the      *)
(* time claims cut to whole seconds), so two tokens are the same string    *)
(* exactly when the records are equal.                                     *)
(***************************************************************************)
EXTENDS Integers, Sequences, FiniteSets, TLC

VARIABLES users, tokens, outbox, clock, last, nops, call,
          contacts, contact_seq, inflight

vars == <<users, tokens, outbox, clock, last, nops, call,
          contacts, contact_seq, inflight>>

\* The contacts table with its id sequence and the requests in flight: used
\* by the specifications of the contacts repository and of overlapping
\* requests, left alone by the others
others == <<contacts, contact_seq, inflight>>

----------------------------------------------------------------------------
(* Bounds of the model *)

MaxOps == 3
\* Direct calls of the Auth service: the largest expires_delta (seconds) and
\* the latest instant of a call
MaxTtl == 3
MaxStart == 2
\* Contacts repository: the number of rows ever inserted
MaxContacts == 2
\* Overlapping requests: how many are in flight together
MaxInflight == 2

Emails == {"user@x.com", "other@x.com"}
Passwords == {"secret1", "secret2"}
Salts == {"salt1"}
Usernames == {"Leonardo"}

----------------------------------------------------------------------------
(* Program constants *)

ACCESS_TTL == 3600
REFRESH_TTL == 604800
EMAIL_TTL == 604800

ACCESS_SCOPE == "access_token"
REFRESH_SCOPE == "refresh_token"

\* the instants (seconds) the clock is observed at: the same second, the
\* next one, past the access ttl and past the refresh ttl
Times == {0, 1, ACCESS_TTL + 1, REFRESH_TTL + 1}

\* Python's None, for an account and for the refresh_token column
None == [none |-> TRUE]
\* expires_delta=None
NoDelta == -1

\* Outcomes: the detail of the HTTPException raised, "OK" for a normal
\* response, or the name of the Python exception that escapes the handler.
OK == "OK"
CREDENTIALS == "Could not validate credentials"
INVALID_SCOPE == "Invalid scope for token"
INVALID_REFRESH == "Invalid refresh token"
INVALID_EMAIL == "Invalid email"
NOT_CONFIRMED == "Email not confirmed"
INVALID_PASSWORD == "Invalid password"
INVALID_EMAIL_TOKEN == "Invalid token for email verification"
VERIFICATION_ERROR == "Verification error"
ALREADY_EXISTS == "Account already exists"
KEY_ERROR == "KeyError"
ATTRIBUTE_ERROR == "AttributeError"
PHONE_EXISTS == "Phone number already exists"
CONTACT_NOT_FOUND == "Contact not found"

----------------------------------------------------------------------------
(* Credential Hasher *)

get_password_hash(password, salt) == [scheme |-> "bcrypt", salt |-> salt, secret |-> password]

\* Faulty variant: only the hash's scheme is looked at
verify_password_SchemeOnly(plain_password, hashed_password) ==
    hashed_password.scheme = "bcrypt"

verify_password(plain_password, hashed_password) ==
    hashed_password = get_password_hash(plain_password, hashed_password.salt)

----------------------------------------------------------------------------
(* Token Codec *)

\* jwt.encode(to_encode, SECRET_KEY, algorithm=ALGORITHM)
jwt_encode(to_encode) == [claims |-> to_encode, sig |-> "valid"]

\* jwt.decode(token, SECRET_KEY, algorithms=[ALGORITHM]): the signature is
\* verified first, then exp (expired when exp < now). JWTError covers both.
jwt_decode(token, now) ==
    IF token.sig # "valid" THEN [error |-> "JWTError"]
    ELSE IF "exp" \in DOMAIN token.claims /\ token.claims.exp < now
         THEN [error |-> "JWTError"]
         ELSE [error |-> "", payload |-> token.claims]

\* Faulty variant: the claims start from an empty dict, not from data.copy()
WithClaims_DropsData(data, iat, exp, scope) ==
    [iat |-> iat, exp |-> exp, scope |-> scope]

\* to_encode.update({'iat': ..., 'exp': ..., 'scope': ...}) on data, which
\* is {'sub': email} or {}
WithClaims(data, iat, exp, scope) ==
    IF "sub" \in DOMAIN data
    THEN [sub |-> data.sub, iat |-> iat, exp |-> exp, scope |-> scope]
    ELSE [iat |-> iat, exp |-> exp, scope |-> scope]

\* Faulty variant: expires_delta is ignored
create_access_token_IgnoresDelta(data, expires_delta, now) ==
    jwt_encode(WithClaims(data, now, now + ACCESS_TTL, ACCESS_SCOPE))

create_access_token(data, expires_delta, now) ==
    LET expire == IF expires_delta # NoDelta /\ expires_delta # 0
                  THEN now + expires_delta
                  ELSE now + ACCESS_TTL
    IN  jwt_encode(WithClaims(data, now, expire, ACCESS_SCOPE))

\* Faulty variant: the scope literal copied from create_access_token
create_refresh_token_AccessScope(data, expires_delta, now) ==
    LET expire == IF expires_delta # NoDelta /\ expires_delta # 0
                  THEN now + expires_delta
                  ELSE now + REFRESH_TTL
    IN  jwt_encode(WithClaims(data, now, expire, ACCESS_SCOPE))

create_refresh_token(data, expires_delta, now) ==
    LET expire == IF expires_delta # NoDelta /\ expires_delta # 0
                  THEN now + expires_delta
                  ELSE now + REFRESH_TTL
    IN  jwt_encode(WithClaims(data, now, expire, REFRESH_SCOPE))

create_email_token(data, now) ==
    jwt_encode(IF "sub" \in DOMAIN data
               THEN [sub |-> data.sub, iat |-> now, exp |-> now + EMAIL_TTL]
               ELSE [iat |-> now, exp |-> now + EMAIL_TTL])

\* Faulty variant: the scope of the payload is not looked at
decode_refresh_token_AnyScope(refresh_token, now) ==
    LET d == jwt_decode(refresh_token, now) IN
    IF d.error # "" THEN [detail |-> CREDENTIALS]
    ELSE IF "sub" \notin DOMAIN d.payload THEN [detail |-> KEY_ERROR]
    ELSE [detail |-> OK, email |-> d.payload.sub]

\* Faulty variant: an expired token gets a detail of its own
decode_refresh_token_TellsExpiry(refresh_token, now) ==
    LET d == jwt_decode(refresh_token, now) IN
    IF d.error # "" /\ refresh_token.sig = "valid"
    THEN [detail |-> "Signature has expired"]
    ELSE IF d.error # "" THEN [detail |-> CREDENTIALS]
    ELSE IF "scope" \notin DOMAIN d.payload THEN [detail |-> KEY_ERROR]
    ELSE IF d.payload.scope = REFRESH_SCOPE
         THEN IF "sub" \notin DOMAIN d.payload THEN [detail |-> KEY_ERROR]
              ELSE [detail |-> OK, email |-> d.payload.sub]
         ELSE [detail |-> INVALID_SCOPE]

\* Result: [detail, email]; detail = OK when the email is returned.
decode_refresh_token(refresh_token, now) ==
    LET d == jwt_decode(refresh_token, now) IN
    IF d.error # "" THEN [detail |-> CREDENTIALS]
    ELSE IF "scope" \notin DOMAIN d.payload THEN [detail |-> KEY_ERROR]
    ELSE IF d.payload.scope = REFRESH_SCOPE
         THEN IF "sub" \notin DOMAIN d.payload THEN [detail |-> KEY_ERROR]
              ELSE [detail |-> OK, email |-> d.payload.sub]
         ELSE [detail |-> INVALID_SCOPE]

get_email_from_token(token, now) ==
    LET d == jwt_decode(token, now) IN
    IF d.error # "" THEN [detail |-> INVALID_EMAIL_TOKEN]
    ELSE IF "sub" \notin DOMAIN d.payload THEN [detail |-> KEY_ERROR]
    ELSE [detail |-> OK, email |-> d.payload.sub]

----------------------------------------------------------------------------
(* User Directory (src/repository/users.py) *)

\* db.query(User).filter(User.email == email).first()
get_user_by_email(email, db) == IF email \in DOMAIN db THEN db[email] ELSE None

\* Faulty variant: the new row is confirmed from the start
create_user_Confirmed(body, db) ==
    [db EXCEPT ![body.email] =
             [username |-> body.username, email |-> body.email,
              password |-> body.password, confirmed |-> TRUE,
              refresh_token |-> None, avatar |-> "gravatar"]]

create_user(body, db) ==
    [e \in Emails |->
        IF e = body.email
        THEN [email |-> body.email, username |-> body.username,
              password |-> body.password, confirmed |-> FALSE,
              refresh_token |-> None, avatar |-> "gravatar"]
        ELSE db[e]]

update_token(user, token, db) == [db EXCEPT ![user.email].refresh_token = token]

set_confirmed(email, db) == [db EXCEPT ![email].confirmed = TRUE]

update_avatar(email, url, db) == [db EXCEPT ![email].avatar = url]

----------------------------------------------------------------------------
(* Request Authorizer *)

\* Faulty variant: any scope is taken for the access scope
get_current_user_AnyScope(token, now, db) ==
    LET d == jwt_decode(token, now) IN
    IF d.error # "" THEN [detail |-> CREDENTIALS]
    ELSE IF "scope" \notin DOMAIN d.payload THEN [detail |-> KEY_ERROR]
    ELSE IF "sub" \notin DOMAIN d.payload THEN [detail |-> KEY_ERROR]
    ELSE LET user == get_user_by_email(d.payload.sub, db) IN
         IF user = None THEN [detail |-> CREDENTIALS]
         ELSE [detail |-> OK, user |-> user]

\* Faulty variant: the result of the directory lookup is returned unchecked
get_current_user_NoUserCheck(token, now, db) ==
    LET d == jwt_decode(token, now) IN
    IF d.error # "" THEN [detail |-> CREDENTIALS]
    ELSE IF "scope" \notin DOMAIN d.payload THEN [detail |-> KEY_ERROR]
    ELSE IF d.payload.scope # ACCESS_SCOPE THEN [detail |-> CREDENTIALS]
    ELSE IF "sub" \notin DOMAIN d.payload THEN [detail |-> KEY_ERROR]
    ELSE [detail |-> OK, user |-> get_user_by_email(d.payload.sub, db)]

\* Result: [detail, user]; detail = OK when the user is returned.
\* Faulty variant: payload.get('scope', 'access_token'), a token without a
\* scope passes for an access token
get_current_user_ScopeDefault(token, now, db) ==
    LET d == jwt_decode(token, now) IN
    IF d.error # "" THEN [detail |-> CREDENTIALS]
    ELSE IF "scope" \in DOMAIN d.payload /\ d.payload.scope # ACCESS_SCOPE
         THEN [detail |-> CREDENTIALS]
    ELSE IF "sub" \notin DOMAIN d.payload THEN [detail |-> KEY_ERROR]
    ELSE LET user == get_user_by_email(d.payload.sub, db) IN
         IF user = None THEN [detail |-> CREDENTIALS]
         ELSE [detail |-> OK, user |-> user]

get_current_user(token, now, db) ==
    LET d == jwt_decode(token, now) IN
    IF d.error # "" THEN [detail |-> CREDENTIALS]
    ELSE IF "scope" \notin DOMAIN d.payload THEN [detail |-> KEY_ERROR]
    ELSE IF d.payload.scope # ACCESS_SCOPE THEN [detail |-> CREDENTIALS]
    ELSE IF "sub" \notin DOMAIN d.payload THEN [detail |-> KEY_ERROR]
    ELSE LET user == get_user_by_email(d.payload.sub, db) IN
         IF user = None THEN [detail |-> CREDENTIALS]
         ELSE [detail |-> OK, user |-> user]

----------------------------------------------------------------------------
(* Route handlers of src/routes/auth.py, as functions of the request, the   *)
(* clock and the directory. Each returns the outcome (detail), the          *)
(* directory after the request and what the response carries.               *)

\* Faulty variant: no look-up of an existing account before create_user
signup_Overwrites(body, salt, db) ==
    LET hashed == [body EXCEPT !.password = get_password_hash(body.password, salt)] IN
    [detail |-> OK, db |-> create_user(hashed, db), mail |-> <<body.email>>]

signup(body, salt, db) ==
    LET exist_user == get_user_by_email(body.email, db) IN
    IF exist_user # None
    THEN [detail |-> ALREADY_EXISTS, db |-> db, mail |-> <<>>]
    ELSE LET hashed == [body EXCEPT !.password = get_password_hash(body.password, salt)] IN
         [detail |-> OK, db |-> create_user(hashed, db), mail |-> <<body.email>>]

\* Faulty variant: the refresh token is returned but not stored on the account
login_NoPersist(body, now, db) ==
    LET user == get_user_by_email(body.username, db) IN
    IF user = None
    THEN [detail |-> INVALID_EMAIL, db |-> db, access_token |-> None, refresh_token |-> None]
    ELSE IF ~user.confirmed
    THEN [detail |-> NOT_CONFIRMED, db |-> db, access_token |-> None, refresh_token |-> None]
    ELSE IF ~verify_password(body.password, user.password)
    THEN [detail |-> INVALID_PASSWORD, db |-> db, access_token |-> None, refresh_token |-> None]
    ELSE [detail |-> OK, db |-> db,
          access_token |-> create_access_token([sub |-> user.email], NoDelta, now),
          refresh_token |-> create_refresh_token([sub |-> user.email], NoDelta, now)]

\* Faulty variant: the password is checked before the confirmed flag
login_PasswordFirst(body, now, db) ==
    LET user == get_user_by_email(body.username, db) IN
    IF user = None
    THEN [detail |-> INVALID_EMAIL, db |-> db, access_token |-> None, refresh_token |-> None]
    ELSE IF ~verify_password(body.password, user.password)
    THEN [detail |-> INVALID_PASSWORD, db |-> db, access_token |-> None, refresh_token |-> None]
    ELSE IF ~user.confirmed
    THEN [detail |-> NOT_CONFIRMED, db |-> db, access_token |-> None, refresh_token |-> None]
    ELSE LET access_token == create_access_token([sub |-> user.email], NoDelta, now)
             refresh_token == create_refresh_token([sub |-> user.email], NoDelta, now)
         IN  [detail |-> OK, db |-> update_token(user, refresh_token, db),
              access_token |-> access_token, refresh_token |-> refresh_token]

\* Faulty variant: the confirmed flag is not looked at
login_NoConfirmCheck(body, now, db) ==
    LET user == get_user_by_email(body.username, db) IN
    IF user = None
    THEN [detail |-> INVALID_EMAIL, db |-> db, access_token |-> None, refresh_token |-> None]
    ELSE IF ~verify_password(body.password, user.password)
    THEN [detail |-> INVALID_PASSWORD, db |-> db, access_token |-> None, refresh_token |-> None]
    ELSE LET access_token == create_access_token([sub |-> user.email], NoDelta, now)
             refresh_token == create_refresh_token([sub |-> user.email], NoDelta, now)
         IN  [detail |-> OK, db |-> update_token(user, refresh_token, db),
              access_token |-> access_token, refresh_token |-> refresh_token]

\* Faulty variant: a wrong password ends the account's session
login_FailureEndsSession(body, now, db) ==
    LET user == get_user_by_email(body.username, db) IN
    IF user = None
    THEN [detail |-> INVALID_EMAIL, db |-> db, access_token |-> None, refresh_token |-> None]
    ELSE IF ~user.confirmed
    THEN [detail |-> NOT_CONFIRMED, db |-> db, access_token |-> None, refresh_token |-> None]
    ELSE IF ~verify_password(body.password, user.password)
    THEN [detail |-> INVALID_PASSWORD, db |-> update_token(user, None, db),
          access_token |-> None, refresh_token |-> None]
    ELSE LET access_token == create_access_token([sub |-> user.email], NoDelta, now)
             refresh_token == create_refresh_token([sub |-> user.email], NoDelta, now)
         IN  [detail |-> OK, db |-> update_token(user, refresh_token, db),
              access_token |-> access_token, refresh_token |-> refresh_token]

login(body, now, db) ==
    LET user == get_user_by_email(body.username, db) IN
    IF user = None
    THEN [detail |-> INVALID_EMAIL, db |-> db, access_token |-> None, refresh_token |-> None]
    ELSE IF ~user.confirmed
    THEN [detail |-> NOT_CONFIRMED, db |-> db, access_token |-> None, refresh_token |-> None]
    ELSE IF ~verify_password(body.password, user.password)
    THEN [detail |-> INVALID_PASSWORD, db |-> db, access_token |-> None, refresh_token |-> None]
    ELSE LET access_token == create_access_token([sub |-> user.email], NoDelta, now)
             refresh_token == create_refresh_token([sub |-> user.email], NoDelta, now)
         IN  [detail |-> OK, db |-> update_token(user, refresh_token, db),
              access_token |-> access_token, refresh_token |-> refresh_token]

\* Faulty variant: an already confirmed account is an error
confirmed_email_RejectsRepeat(token, now, db) ==
    LET r == get_email_from_token(token, now) IN
    IF r.detail # OK THEN [detail |-> r.detail, db |-> db, message |-> ""]
    ELSE LET user == get_user_by_email(r.email, db) IN
         IF user = None \/ user.confirmed
         THEN [detail |-> VERIFICATION_ERROR, db |-> db, message |-> ""]
         ELSE [detail |-> OK, db |-> set_confirmed(r.email, db), message |-> "Email confirmed"]

confirmed_email(token, now, db) ==
    LET r == get_email_from_token(token, now) IN
    IF r.detail # OK THEN [detail |-> r.detail, db |-> db, message |-> ""]
    ELSE LET user == get_user_by_email(r.email, db) IN
         IF user = None
         THEN [detail |-> VERIFICATION_ERROR, db |-> db, message |-> ""]
         ELSE IF user.confirmed
         THEN [detail |-> OK, db |-> db, message |-> "Your email is already confirmed"]
         ELSE [detail |-> OK, db |-> set_confirmed(r.email, db), message |-> "Email confirmed"]

\* Faulty variant: a mismatch is rejected without clearing the stored token
refresh_token_KeepsSession(token, now, db) ==
    LET r == decode_refresh_token(token, now) IN
    IF r.detail # OK
    THEN [detail |-> r.detail, db |-> db, access_token |-> None, refresh_token |-> None]
    ELSE LET user == get_user_by_email(r.email, db) IN
         IF user = None
         THEN [detail |-> ATTRIBUTE_ERROR, db |-> db,
               access_token |-> None, refresh_token |-> None]
         ELSE IF user.refresh_token # token
         THEN [detail |-> INVALID_REFRESH, db |-> db,
               access_token |-> None, refresh_token |-> None]
         ELSE LET access_token == create_access_token([sub |-> r.email], NoDelta, now)
                  new_refresh == create_refresh_token([sub |-> r.email], NoDelta, now)
              IN  [detail |-> OK, db |-> update_token(user, new_refresh, db),
                   access_token |-> access_token, refresh_token |-> new_refresh]

\* POST /request_email: user.confirmed is read before `if user:`, with no
\* account it raises. Result: [detail, message, mail].
request_email(body, db) ==
    LET user == get_user_by_email(body.email, db) IN
    IF user = None
    THEN [detail |-> ATTRIBUTE_ERROR, message |-> "", mail |-> << >>]
    ELSE IF user.confirmed
    THEN [detail |-> OK, message |-> "Your email is already confirmed",
          mail |-> << >>]
    ELSE [detail |-> OK, message |-> "Check your email for confirmation.",
          mail |-> <<user.email>>]

\* Faulty variant: `if user.refresh_token and user.refresh_token != token`,
\* an account without a stored token passes the comparison
refresh_token_AcceptsWhenNull(token, now, db) ==
    LET r == decode_refresh_token(token, now) IN
    IF r.detail # OK
    THEN [detail |-> r.detail, db |-> db, access_token |-> None, refresh_token |-> None]
    ELSE LET user == get_user_by_email(r.email, db) IN
         IF user = None
         THEN [detail |-> ATTRIBUTE_ERROR, db |-> db,
               access_token |-> None, refresh_token |-> None]
         ELSE IF user.refresh_token # None /\ user.refresh_token # token
         THEN [detail |-> INVALID_REFRESH, db |-> update_token(user, None, db),
               access_token |-> None, refresh_token |-> None]
         ELSE LET access_token == create_access_token([sub |-> r.email], NoDelta, now)
                  new_refresh == create_refresh_token([sub |-> r.email], NoDelta, now)
              IN  [detail |-> OK, db |-> update_token(user, new_refresh, db),
                   access_token |-> access_token, refresh_token |-> new_refresh]

refresh_token(token, now, db) ==
    LET r == decode_refresh_token(token, now) IN
    IF r.detail # OK
    THEN [detail |-> r.detail, db |-> db, access_token |-> None, refresh_token |-> None]
    ELSE LET user == get_user_by_email(r.email, db) IN
         IF user = None
         THEN [detail |-> ATTRIBUTE_ERROR, db |-> db,
               access_token |-> None, refresh_token |-> None]
         ELSE IF user.refresh_token # token
         THEN [detail |-> INVALID_REFRESH, db |-> update_token(user, None, db),
               access_token |-> None, refresh_token |-> None]
         ELSE LET access_token == create_access_token([sub |-> r.email], NoDelta, now)
                  new_refresh == create_refresh_token([sub |-> r.email], NoDelta, now)
              IN  [detail |-> OK, db |-> update_token(user, new_refresh, db),
                   access_token |-> access_token, refresh_token |-> new_refresh]

\* src/routes/users.py: the avatar of the acting account is replaced by the
\* uploaded image's url (public_id contacts/<username>)
update_avatar_user(token, now, db) ==
    LET r == get_current_user(token, now, db) IN
    IF r.detail # OK THEN [detail |-> r.detail, db |-> db, user |-> None]
    ELSE LET db2 == update_avatar(r.user.email, "cloudinary", db) IN
         [detail |-> OK, db |-> db2, user |-> db2[r.user.email]]

----------------------------------------------------------------------------
(* State machine *)

\* data arguments of the token constructors: {'sub': email} or {}
NoData == [nosub |-> TRUE]
Data == {[sub |-> e] : e \in Emails} \cup {NoData}

\* What a caller can present as a bearer string: a token the service gave
\* out, the same with a signature that does not verify, a string that is no
\* JWT, or a token made just now by a direct call of the Token Codec (by a
\* holder of the key) for any subject or none.
Forge(t) == [t EXCEPT !.sig = "forged"]
Garbage == [claims |-> [iat |-> 0], sig |-> "malformed"]
Minted(now) ==
    {create_access_token(d, NoDelta, now) : d \in Data}
        \cup {create_refresh_token(d, NoDelta, now) : d \in Data}
Presentable == tokens \cup {Forge(t) : t \in tokens} \cup {Garbage} \cup Minted(clock)

\* An account row as create_user leaves it, confirmed or not
Account(e, confirmed) ==
    [email |-> e, username |-> "Leonardo",
     password |-> get_password_hash("secret1", "salt1"),
     confirmed |-> confirmed, refresh_token |-> None, avatar |-> "gravatar"]

\* The record of a request: what was asked (op, token or email/password),
\* when (now), on which directory (pre) and what came back (detail and the
\* response's fields).
NoRequest ==
    [op |-> "none", detail |-> OK, token |-> None, email |-> "", password |-> "",
     access_token |-> None, refresh_token |-> None, message |-> "", user |-> None,
     now |-> 0, pre |-> None]

Request(op) ==
    [NoRequest EXCEPT !.op = op, !.now = clock, !.pre = users]

\* The record of a direct call of the Auth service (no call in Spec): the
\* token constructor used (kind), its arguments (data, ttl), the instant of
\* the call (t0) and the token made; or the password hashed and its hash.
\* Once the result was handed to the matching verifying operation: the
\* instant (at), the outcome (detail), the subject and scope it yielded, and
\* for verify_password the password tried and the boolean returned.
NoCall ==
    [fn |-> "none", kind |-> "", data |-> NoData, ttl |-> NoDelta, t0 |-> 0,
     token |-> None, password |-> "", hash |-> None,
     verified |-> FALSE, at |-> 0, detail |-> "", sub |-> "", scope |-> "",
     tried |-> "", result |-> FALSE]

\* The directory at start-up holds accounts that signed up in earlier runs
\* (confirmed or not) and no session.
Init ==
    /\ users \in [Emails -> {None}] \cup
                 {[e \in Emails |-> IF e = "user@x.com" THEN Account(e, c) ELSE None] :
                     c \in BOOLEAN}
    /\ tokens = {}
    /\ outbox = <<>>
    /\ clock = 0
    /\ last = NoRequest
    /\ nops = 0
    /\ call = NoCall
    /\ contacts = {}
    /\ contact_seq = 0
    /\ inflight = << >>

Signup(body, salt) ==
    /\ nops < MaxOps
    /\ LET r == signup(body, salt, users) IN
       /\ users' = r.db
       /\ outbox' = outbox \o r.mail
       /\ last' = [Request("signup") EXCEPT !.detail = r.detail,
                       !.email = body.email, !.password = body.password]
    /\ nops' = nops + 1
    /\ UNCHANGED <<tokens, clock, call, others>>

\* The background task send_email: mails the confirmation token
SendEmail ==
    /\ outbox # <<>>
    /\ tokens' = tokens \cup {create_email_token([sub |-> Head(outbox)], clock)}
    /\ outbox' = Tail(outbox)
    /\ UNCHANGED <<users, clock, last, nops, call, others>>

Login(body) ==
    /\ nops < MaxOps
    /\ LET r == login(body, clock, users) IN
       /\ users' = r.db
       /\ tokens' = tokens \cup ({r.access_token, r.refresh_token} \ {None})
       /\ last' = [Request("login") EXCEPT !.detail = r.detail,
                       !.email = body.username, !.password = body.password,
                       !.access_token = r.access_token,
                       !.refresh_token = r.refresh_token]
    /\ nops' = nops + 1
    /\ UNCHANGED <<outbox, clock, call, others>>

ConfirmedEmail(token) ==
    /\ nops < MaxOps
    /\ LET r == confirmed_email(token, clock, users) IN
       /\ users' = r.db
       /\ last' = [Request("confirmed_email") EXCEPT !.detail = r.detail,
                       !.token = token, !.message = r.message]
    /\ nops' = nops + 1
    /\ UNCHANGED <<tokens, outbox, clock, call, others>>

RefreshToken(token) ==
    /\ nops < MaxOps
    /\ LET r == refresh_token(token, clock, users) IN
       /\ users' = r.db
       /\ tokens' = tokens \cup ({r.access_token, r.refresh_token} \ {None})
       /\ last' = [Request("refresh_token") EXCEPT !.detail = r.detail,
                       !.token = token, !.access_token = r.access_token,
                       !.refresh_token = r.refresh_token]
    /\ nops' = nops + 1
    /\ UNCHANGED <<outbox, clock, call, others>>

\* A protected endpoint (read_users_me): Depends(auth_service.get_current_user)
ReadUsersMe(token) ==
    /\ nops < MaxOps
    /\ LET r == get_current_user(token, clock, users) IN
       last' = [Request("read_users_me") EXCEPT !.detail = r.detail,
                    !.token = token,
                    !.user = IF r.detail = OK THEN r.user ELSE None]
    /\ nops' = nops + 1
    /\ UNCHANGED <<users, tokens, outbox, clock, call, others>>

RequestEmail(body) ==
    /\ nops < MaxOps
    /\ LET r == request_email(body, users) IN
       /\ outbox' = outbox \o r.mail
       /\ last' = [Request("request_email") EXCEPT !.detail = r.detail,
                       !.email = body.email, !.message = r.message]
    /\ nops' = nops + 1
    /\ UNCHANGED <<users, tokens, clock, call, others>>

\* PATCH /users/avatar: Depends(auth_service.get_current_user), then the
\* upload and update_avatar(user.email, src_url, db)
UpdateAvatar(token) ==
    /\ nops < MaxOps
    /\ LET r == update_avatar_user(token, clock, users) IN
       /\ users' = r.db
       /\ last' = [Request("update_avatar_user") EXCEPT !.detail = r.detail,
                       !.token = token, !.user = r.user]
    /\ nops' = nops + 1
    /\ UNCHANGED <<tokens, outbox, clock, call, others>>

\* Time passes
Advance(t) ==
    /\ t > clock
    /\ clock' = t
    /\ UNCHANGED <<users, tokens, outbox, last, nops, call, others>>

Next ==
    \/ \E e \in Emails, u \in Usernames, p \in Passwords, s \in Salts :
          Signup([username |-> u, email |-> e, password |-> p], s)
    \/ SendEmail
    \/ \E e \in Emails, p \in Passwords : Login([username |-> e, password |-> p])
    \/ \E t \in Presentable : ConfirmedEmail(t)
    \/ \E t \in Presentable : RefreshToken(t)
    \/ \E t \in Presentable : ReadUsersMe(t)
    \/ \E t \in Presentable : UpdateAvatar(t)
    \/ \E t \in Times : Advance(t)

Spec == Init /\ [][Next]_vars

\* The email-verification flow by itself: signup and request_email queue
\* the mail, send_email mails the token, confirmed_email redeems it
EmailNext ==
    \/ \E e \in Emails, u \in Usernames, p \in Passwords, s \in Salts :
          Signup([username |-> u, email |-> e, password |-> p], s)
    \/ SendEmail
    \/ \E e \in Emails : RequestEmail([email |-> e])
    \/ \E t \in Presentable : ConfirmedEmail(t)
    \/ \E t \in Times : Advance(t)

SpecEmail == Init /\ [][EmailNext]_vars

----------------------------------------------------------------------------
(* Direct calls of the Auth service object (auth_service): a token
   constructor and, after some time, the operation that verifies its token;
   get_password_hash and then verify_password *)

Kinds == {"access", "refresh", "email"}

\* expires_delta: None, or a number of seconds
Deltas == {NoDelta} \cup (0 .. MaxTtl)

\* Seconds between the construction of a token and its verification
Elapsed ==
    (0 .. MaxTtl + 1)
        \cup {ACCESS_TTL - 1, ACCESS_TTL, ACCESS_TTL + 1}
        \cup {REFRESH_TTL - 1, REFRESH_TTL, REFRESH_TTL + 1}

AuthInit ==
    /\ users = [e \in Emails |->
                   IF e = "user@x.com" THEN Account(e, TRUE) ELSE None]
    /\ tokens = {}
    /\ outbox = << >>
    /\ clock \in 0 .. MaxStart
    /\ last = NoRequest
    /\ nops = 0
    /\ call = NoCall
    /\ contacts = {}
    /\ contact_seq = 0
    /\ inflight = << >>

CreateToken(kind, data, expires_delta) ==
    /\ call.fn = "none"
    /\ kind = "email" => expires_delta = NoDelta
    /\ LET token == CASE kind = "access" ->
                            create_access_token(data, expires_delta, clock)
                      [] kind = "refresh" ->
                            create_refresh_token(data, expires_delta, clock)
                      [] OTHER -> create_email_token(data, clock)
       IN  call' = [NoCall EXCEPT !.fn = "create_token", !.kind = kind,
                       !.data = data, !.ttl = expires_delta, !.t0 = clock,
                       !.token = token]
    /\ UNCHANGED <<users, tokens, outbox, clock, last, nops,
                 others>>

\* Time passes between the construction and the verification
Pass(e) ==
    /\ call.fn = "create_token"
    /\ ~call.verified
    /\ call.t0 + e > clock
    /\ clock' = call.t0 + e
    /\ UNCHANGED <<users, tokens, outbox, last, nops, call, others>>

\* The token goes to the operation that consumes its kind; sub and scope are
\* those of the payload jwt.decode hands to that operation.
VerifyToken ==
    /\ call.fn = "create_token"
    /\ ~call.verified
    /\ LET detail == CASE call.kind = "access" ->
                             get_current_user(call.token, clock, users).detail
                       [] call.kind = "refresh" ->
                             decode_refresh_token(call.token, clock).detail
                       [] OTHER ->
                             get_email_from_token(call.token, clock).detail
           d == jwt_decode(call.token, clock)
           payload == IF d.error = "" THEN d.payload ELSE [iat |-> 0]
       IN  call' = [call EXCEPT !.verified = TRUE, !.at = clock,
                       !.detail = detail,
                       !.sub = IF "sub" \in DOMAIN payload
                               THEN payload.sub ELSE "",
                       !.scope = IF "scope" \in DOMAIN payload
                                 THEN payload.scope ELSE ""]
    /\ UNCHANGED <<users, tokens, outbox, clock, last, nops,
                 others>>

GetPasswordHash(password, salt) ==
    /\ call.fn = "none"
    /\ call' = [NoCall EXCEPT !.fn = "get_password_hash",
                    !.password = password,
                    !.hash = get_password_hash(password, salt)]
    /\ UNCHANGED <<users, tokens, outbox, clock, last, nops,
                 others>>

VerifyPassword(plain_password) ==
    /\ call.fn = "get_password_hash"
    /\ ~call.verified
    /\ call' = [call EXCEPT !.verified = TRUE, !.tried = plain_password,
                    !.result = verify_password(plain_password, call.hash)]
    /\ UNCHANGED <<users, tokens, outbox, clock, last, nops,
                 others>>

AuthNext ==
    \/ \E kind \in Kinds, data \in Data, expires_delta \in Deltas :
          CreateToken(kind, data, expires_delta)
    \/ \E e \in Elapsed : Pass(e)
    \/ VerifyToken
    \/ \E password \in Passwords, salt \in Salts : GetPasswordHash(password, salt)
    \/ \E plain_password \in Passwords : VerifyPassword(plain_password)

SpecAuth == AuthInit /\ [][AuthNext]_vars

----------------------------------------------------------------------------
(* Contacts repository (src/repository/contacts.py), called with the acting
   user that get_current_user resolved. Strings that are searched are tuples
   of characters. *)

Max(a, b) == IF a > b THEN a ELSE b
Min(a, b) == IF a < b THEN a ELSE b

Lower(ch) ==
    CASE ch = "A" -> "a" [] ch = "B" -> "b" [] ch = "L" -> "l"
      [] ch = "N" -> "n" [] ch = "O" -> "o" [] OTHER -> ch

\* column ILIKE pattern: % stands for any run of characters, _ for any one
\* character, letters compare without case
RECURSIVE ilike(_, _)
ilike(str, pattern) ==
    IF pattern = << >> THEN str = << >>
    ELSE IF Head(pattern) = "%"
         THEN ilike(str, Tail(pattern))
                 \/ (str # << >> /\ ilike(Tail(str), pattern))
         ELSE /\ str # << >>
              /\ Head(pattern) = "_" \/ Lower(Head(pattern)) = Lower(Head(str))
              /\ ilike(Tail(str), Tail(pattern))

\* Contact(**body.model_dump(), user=user) with the id the sequence gives
Contact(id, body, user) ==
    [id |-> id, user_id |-> user.id, first_name |-> body.first_name,
     last_name |-> body.last_name, email |-> body.email,
     phone_number |-> body.phone_number]

\* .offset(skip).limit(limit).all() of a query without ORDER BY: the rows of
\* the page are any rows of the right number
Page(rows, skip, limit) ==
    {page \in SUBSET rows :
        Cardinality(page) = Min(limit, Max(Cardinality(rows) - skip, 0))}

\* Faulty variant: the phone number is looked up among all users' contacts
create_contact_AnyOwner(body, db, seq, user) ==
    IF \E c \in db : c.phone_number = body.phone_number
    THEN [detail |-> PHONE_EXISTS, db |-> db, seq |-> seq, contact |-> None]
    ELSE [detail |-> OK, db |-> db \cup {Contact(seq + 1, body, user)},
          seq |-> seq + 1, contact |-> Contact(seq + 1, body, user)]

create_contact(body, db, seq, user) ==
    IF \E c \in db : c.phone_number = body.phone_number /\ c.user_id = user.id
    THEN [detail |-> PHONE_EXISTS, db |-> db, seq |-> seq, contact |-> None]
    ELSE [detail |-> OK, db |-> db \cup {Contact(seq + 1, body, user)},
          seq |-> seq + 1, contact |-> Contact(seq + 1, body, user)]

\* .filter(and_(Contact.id == contact_id, Contact.user_id == user.id)).first()
first_contact(contact_id, db, user) ==
    IF \E c \in db : c.id = contact_id /\ c.user_id = user.id
    THEN CHOOSE c \in db : c.id = contact_id /\ c.user_id = user.id
    ELSE None

get_contact(contact_id, db, user) ==
    LET contact == first_contact(contact_id, db, user) IN
    IF contact = None THEN [detail |-> CONTACT_NOT_FOUND, contact |-> None]
    ELSE [detail |-> OK, contact |-> contact]

\* The set of the results the query may give
get_contacts(skip, limit, db, user) ==
    Page({c \in db : c.user_id = user.id}, skip, limit)

\* Faulty variant: the row is looked up by its id alone
update_contact_AnyOwner(contact_id, updated_contact, db, user) ==
    IF \E c \in db : c.id = contact_id
    THEN LET contact == CHOOSE c \in db : c.id = contact_id
             new == [Contact(contact.id, updated_contact, user)
                        EXCEPT !.user_id = contact.user_id]
         IN  [detail |-> OK, db |-> (db \ {contact}) \cup {new}, contact |-> new]
    ELSE [detail |-> CONTACT_NOT_FOUND, db |-> db, contact |-> None]

update_contact(contact_id, updated_contact, db, user) ==
    LET contact == first_contact(contact_id, db, user) IN
    IF contact = None
    THEN [detail |-> CONTACT_NOT_FOUND, db |-> db, contact |-> None]
    ELSE LET new == Contact(contact.id, updated_contact, user) IN
         [detail |-> OK, db |-> (db \ {contact}) \cup {new}, contact |-> new]

delete_contact(contact_id, db, user) ==
    LET contact == first_contact(contact_id, db, user) IN
    IF contact = None
    THEN [detail |-> CONTACT_NOT_FOUND, db |-> db, contact |-> None]
    ELSE [detail |-> OK, db |-> db \ {contact}, contact |-> contact]

search_contacts(body, skip, limit, db, user) ==
    LET pattern == <<"%">> \o body \o <<"%">> IN
    Page({c \in db : /\ \/ ilike(c.first_name, pattern)
                          \/ ilike(c.last_name, pattern)
                          \/ ilike(c.email, pattern)
                       /\ c.user_id = user.id},
         skip, limit)

\* The acting users (User.id, User.email) and the request bodies
ContactUsers ==
    {[id |-> 1, email |-> "user@x.com"], [id |-> 2, email |-> "other@x.com"]}
FirstNames == {<<"A", "n", "n">>, <<"B", "o", "b">>}
Phones == {"111", "222"}
ContactRequests ==
    {[first_name |-> f, last_name |-> <<"L", "e", "e">>,
      email |-> <<"a", "@", "x">>, phone_number |-> ph] :
        f \in FirstNames, ph \in Phones}
ContactIds == 1 .. MaxContacts
SearchTerms == {<< >>, <<"a", "N">>, <<"b", "_", "b">>, <<"z">>}
Skips == {0, 1}
Limits == {1, 10}

\* The record of a call of the repository: its arguments, the table before
\* it (pre), its outcome and the rows it returned
ContactCall(op, user) ==
    [op |-> op, detail |-> OK, user |-> user, contact_id |-> 0,
     body |-> None, result |-> {}, pre |-> contacts]

ContactsInit ==
    /\ users = [e \in Emails |-> Account(e, TRUE)]
    /\ tokens = {}
    /\ outbox = << >>
    /\ clock = 0
    /\ last = NoRequest
    /\ nops = 0
    /\ call = NoCall
    /\ contacts = {}
    /\ contact_seq = 0
    /\ inflight = << >>

CreateContact(user, body) ==
    /\ contact_seq < MaxContacts
    /\ LET r == create_contact(body, contacts, contact_seq, user) IN
       /\ contacts' = r.db
       /\ contact_seq' = r.seq
       /\ last' = [ContactCall("create_contact", user) EXCEPT
                       !.detail = r.detail, !.body = body,
                       !.result = IF r.detail = OK THEN {r.contact} ELSE {}]
    /\ UNCHANGED <<users, tokens, outbox, clock, nops, call, inflight>>

GetContact(user, contact_id) ==
    /\ LET r == get_contact(contact_id, contacts, user) IN
       last' = [ContactCall("get_contact", user) EXCEPT
                   !.detail = r.detail, !.contact_id = contact_id,
                   !.result = IF r.detail = OK THEN {r.contact} ELSE {}]
    /\ UNCHANGED <<users, tokens, outbox, clock, nops, call, others>>

GetContacts(user, skip, limit) ==
    /\ \E page \in get_contacts(skip, limit, contacts, user) :
          last' = [ContactCall("get_contacts", user) EXCEPT !.result = page]
    /\ UNCHANGED <<users, tokens, outbox, clock, nops, call, others>>

UpdateContact(user, contact_id, body) ==
    /\ LET r == update_contact(contact_id, body, contacts, user) IN
       /\ contacts' = r.db
       /\ last' = [ContactCall("update_contact", user) EXCEPT
                       !.detail = r.detail, !.contact_id = contact_id,
                       !.body = body,
                       !.result = IF r.detail = OK THEN {r.contact} ELSE {}]
    /\ UNCHANGED <<users, tokens, outbox, clock, nops, call,
                   contact_seq, inflight>>

DeleteContact(user, contact_id) ==
    /\ LET r == delete_contact(contact_id, contacts, user) IN
       /\ contacts' = r.db
       /\ last' = [ContactCall("delete_contact", user) EXCEPT
                       !.detail = r.detail, !.contact_id = contact_id,
                       !.result = IF r.detail = OK THEN {r.contact} ELSE {}]
    /\ UNCHANGED <<users, tokens, outbox, clock, nops, call,
                   contact_seq, inflight>>

SearchContacts(user, body, skip, limit) ==
    /\ \E page \in search_contacts(body, skip, limit, contacts, user) :
          last' = [ContactCall("search_contacts", user) EXCEPT
                      !.body = body, !.result = page]
    /\ UNCHANGED <<users, tokens, outbox, clock, nops, call, others>>

ContactsNext ==
    \/ \E user \in ContactUsers, body \in ContactRequests :
          CreateContact(user, body)
    \/ \E user \in ContactUsers, contact_id \in ContactIds :
          GetContact(user, contact_id)
    \/ \E user \in ContactUsers, skip \in Skips, limit \in Limits :
          GetContacts(user, skip, limit)
    \/ \E user \in ContactUsers, contact_id \in ContactIds,
          body \in ContactRequests : UpdateContact(user, contact_id, body)
    \/ \E user \in ContactUsers, contact_id \in ContactIds :
          DeleteContact(user, contact_id)
    \/ \E user \in ContactUsers, body \in SearchTerms, skip \in Skips,
          limit \in Limits : SearchContacts(user, body, skip, limit)

SpecContacts == ContactsInit /\ [][ContactsNext]_vars

----------------------------------------------------------------------------
(* Overlapping requests. Each request has its own Session (Depends(get_db))
   and its handler reaches the database in separate awaited calls; requests
   served at the same time interleave between those calls. A request reads
   the account row once and keeps working with the row it read. *)

Reqs == 1 .. MaxInflight

Idle ==
    [op |-> "none", pc |-> "idle", token |-> None, user |-> None,
     detail |-> "", access_token |-> None, refresh_token |-> None]

\* One account, logged in at clock 0: its refresh token is stored
OverlapInit ==
    /\ LET e == "user@x.com"
           rt == create_refresh_token([sub |-> e], NoDelta, 0)
       IN  /\ users = [x \in Emails |->
                         IF x = e
                         THEN [Account(e, TRUE) EXCEPT !.refresh_token = rt]
                         ELSE None]
           /\ tokens = {rt}
    /\ outbox = << >>
    /\ clock = 0
    /\ last = NoRequest
    /\ nops = 0
    /\ call = NoCall
    /\ contacts = {}
    /\ contact_seq = 0
    /\ inflight = [i \in Reqs |-> Idle]

\* GET /refresh_token arrives with a refresh token the service gave out
ReceiveRefresh(i, token) ==
    /\ inflight[i].pc = "idle"
    /\ inflight' = [inflight EXCEPT ![i] =
                       [Idle EXCEPT !.op = "refresh_token", !.pc = "received",
                                    !.token = token]]
    /\ UNCHANGED <<users, tokens, outbox, clock, last, nops, call,
                   contacts, contact_seq>>

\* decode_refresh_token, then get_user_by_email: the row is read
RefreshRead(i) ==
    /\ inflight[i].pc = "received"
    /\ inflight[i].op = "refresh_token"
    /\ LET r == decode_refresh_token(inflight[i].token, clock)
           user == IF r.detail = OK THEN get_user_by_email(r.email, users)
                   ELSE None
       IN  inflight' = [inflight EXCEPT ![i] =
               IF r.detail # OK
               THEN [@ EXCEPT !.pc = "done", !.detail = r.detail]
               ELSE IF user = None
               THEN [@ EXCEPT !.pc = "done", !.detail = ATTRIBUTE_ERROR]
               ELSE [@ EXCEPT !.pc = "read", !.user = user]]
    /\ UNCHANGED <<users, tokens, outbox, clock, last, nops, call,
                   contacts, contact_seq>>

\* The comparison with the row that was read, then update_token: None and
\* the rejection on a mismatch, else the new pair and its refresh token
RefreshWrite(i) ==
    /\ inflight[i].pc = "read"
    /\ inflight[i].op = "refresh_token"
    /\ LET user == inflight[i].user
           data == [sub |-> user.email]
           access_token == create_access_token(data, NoDelta, clock)
           refresh == create_refresh_token(data, NoDelta, clock)
       IN  IF user.refresh_token # inflight[i].token
           THEN /\ users' = update_token(user, None, users)
                /\ tokens' = tokens
                /\ inflight' = [inflight EXCEPT ![i] =
                       [@ EXCEPT !.pc = "done", !.detail = INVALID_REFRESH]]
           ELSE /\ users' = update_token(user, refresh, users)
                /\ tokens' = tokens \cup {refresh}
                /\ inflight' = [inflight EXCEPT ![i] =
                       [@ EXCEPT !.pc = "done", !.detail = OK,
                                 !.access_token = access_token,
                                 !.refresh_token = refresh]]
    /\ UNCHANGED <<outbox, clock, last, nops, call, contacts, contact_seq>>

\* A second passes
Tick ==
    /\ clock < MaxStart
    /\ clock' = clock + 1
    /\ UNCHANGED <<users, tokens, outbox, last, nops, call, others>>

OverlapNext ==
    \/ \E i \in Reqs, token \in tokens : ReceiveRefresh(i, token)
    \/ \E i \in Reqs : RefreshRead(i)
    \/ \E i \in Reqs : RefreshWrite(i)
    \/ Tick

SpecOverlap == OverlapInit /\ [][OverlapNext]_vars

----------------------------------------------------------------------------
(* Properties *)

\* a validly signed, unexpired token at the instant now
Verifies(t, now) == t.sig = "valid" /\ t.claims.exp >= now
ScopeOf(t) == IF "scope" \in DOMAIN t.claims THEN t.claims.scope ELSE ""
SubOf(t) == IF "sub" \in DOMAIN t.claims THEN t.claims.sub ELSE ""
IsConfirmationToken(t) == "scope" \notin DOMAIN t.claims /\ "sub" \in DOMAIN t.claims
HasAccount(e, db) == e \in Emails /\ db[e] # None
NoTokens(r) == r.access_token = None /\ r.refresh_token = None

\* C1: after refresh(rt1) succeeded and returned rt2, the next request
\* refresh(rt1) (rt1 still unexpired) fails with 'Invalid refresh token' and
\* leaves the account's stored refresh token null.
C1_RefreshRotation ==
    [][(/\ last.op = "refresh_token" /\ last.detail = OK
        /\ nops' = nops + 1
        /\ last'.op = "refresh_token" /\ last'.token = last.token
        /\ last.token.claims.exp >= clock')
       => (/\ last'.detail = INVALID_REFRESH
           /\ users'[SubOf(last.token)].refresh_token = None)]_vars

\* C2: an access-scoped token that verifies, presented to refresh, is
\* rejected with 'Invalid scope for token', yields no tokens and changes no
\* account.
C2_AccessTokenNeverRefreshes ==
    (/\ last.op = "refresh_token"
     /\ Verifies(last.token, last.now)
     /\ ScopeOf(last.token) = ACCESS_SCOPE)
    => (last.detail = INVALID_SCOPE /\ NoTokens(last) /\ users = last.pre)

C2_Witness ==
    /\ last.op = "refresh_token"
    /\ Verifies(last.token, last.now)
    /\ ScopeOf(last.token) = ACCESS_SCOPE
    /\ HasAccount(SubOf(last.token), last.pre)
    /\ last.pre[SubOf(last.token)].refresh_token # None
    /\ last.detail = INVALID_SCOPE

\* C3: get_current_user resolves a token to an account only if its scope is
\* the access scope; a refresh-scoped token that verifies gets 'Could not
\* validate credentials'.
C3_RefreshTokenNeverAuthorizes ==
    last.op = "read_users_me"
    => /\ (last.detail = OK => ScopeOf(last.token) = ACCESS_SCOPE)
       /\ (Verifies(last.token, last.now) /\ ScopeOf(last.token) = REFRESH_SCOPE
              => last.detail = CREDENTIALS /\ last.user = None)

C3_Witness ==
    /\ last.op = "read_users_me"
    /\ Verifies(last.token, last.now)
    /\ ScopeOf(last.token) = REFRESH_SCOPE
    /\ HasAccount(SubOf(last.token), last.pre)
    /\ last.pre[SubOf(last.token)].refresh_token = last.token
    /\ last.detail = CREDENTIALS

\* C4: refresh with a refresh-scoped token that verifies, whose subject has
\* an account and whose string differs from the account's stored refresh
\* token (null included), fails with 'Invalid refresh token', issues no
\* tokens and sets the stored refresh token to null (nothing else changes).
C4_MismatchRevokes ==
    (/\ last.op = "refresh_token"
     /\ Verifies(last.token, last.now)
     /\ ScopeOf(last.token) = REFRESH_SCOPE
     /\ HasAccount(SubOf(last.token), last.pre)
     /\ last.pre[SubOf(last.token)].refresh_token # last.token)
    => (/\ last.detail = INVALID_REFRESH
        /\ NoTokens(last)
        /\ users = [last.pre EXCEPT ![SubOf(last.token)].refresh_token = None])

C4_Witness ==
    /\ last.op = "refresh_token"
    /\ Verifies(last.token, last.now)
    /\ ScopeOf(last.token) = REFRESH_SCOPE
    /\ HasAccount(SubOf(last.token), last.pre)
    /\ last.pre[SubOf(last.token)].refresh_token # None
    /\ last.pre[SubOf(last.token)].refresh_token # last.token
    /\ last.detail = INVALID_REFRESH
    /\ users[SubOf(last.token)].refresh_token = None

\* C5: after a successful login or refresh the account's stored refresh
\* token is the refresh token the response carries; a refresh with it is
\* accepted, and no other presentable token is accepted for the account.
C5_StoredIsReturned ==
    (last.op \in {"login", "refresh_token"} /\ last.detail = OK)
    => LET rt == last.refresh_token
           e == SubOf(rt)
       IN  /\ HasAccount(e, users)
           /\ users[e].refresh_token = rt
           /\ refresh_token(rt, last.now, users).detail = OK
           /\ \A t \in Presentable :
                 (SubOf(t) = e /\ refresh_token(t, clock, users).detail = OK) => t = rt

C5_Witness ==
    /\ last.op = "refresh_token" /\ last.detail = OK
    /\ last.pre[SubOf(last.token)].refresh_token = last.token
    /\ last.refresh_token # last.token
    /\ users[SubOf(last.token)].refresh_token = last.refresh_token

\* C6: the outcome of login is decided in this order: no account ->
\* 'Invalid email'; account not confirmed -> 'Email not confirmed' (whatever
\* the password); password not the account's -> 'Invalid password';
\* otherwise success. The first and the third are different outcomes.
C6_LoginOutcome ==
    last.op = "login"
    => LET user == last.pre[last.email] IN
       /\ last.detail =
             IF user = None THEN INVALID_EMAIL
             ELSE IF ~user.confirmed THEN NOT_CONFIRMED
             ELSE IF user.password.secret # last.password THEN INVALID_PASSWORD
             ELSE OK
       /\ INVALID_EMAIL # INVALID_PASSWORD

C6_Witness ==
    /\ last.op = "login"
    /\ last.pre[last.email] # None
    /\ ~last.pre[last.email].confirmed
    /\ last.pre[last.email].password.secret # last.password
    /\ last.detail = NOT_CONFIRMED

\* C7: a successful login returns an access token that decodes to the access
\* scope and a refresh token that decodes to the refresh scope, both with
\* the account's email as subject.
C7_LoginScopes ==
    (last.op = "login" /\ last.detail = OK)
    => LET a == jwt_decode(last.access_token, last.now)
           r == jwt_decode(last.refresh_token, last.now)
       IN  /\ a.error = "" /\ a.payload.scope = ACCESS_SCOPE /\ a.payload.sub = last.email
           /\ r.error = "" /\ r.payload.scope = REFRESH_SCOPE /\ r.payload.sub = last.email
           /\ last.pre[last.email].email = last.email

C7_Witness ==
    /\ last.op = "login" /\ last.detail = OK
    /\ ScopeOf(last.access_token) = ACCESS_SCOPE
    /\ ScopeOf(last.refresh_token) = REFRESH_SCOPE

\* C8: every bearer token get_current_user does not accept gets the one
\* outcome 'Could not validate credentials'.
C8_UniformUnauthorized ==
    (last.op = "read_users_me" /\ last.detail # OK) => last.detail = CREDENTIALS

\* C9: get_current_user with an access-scoped token that verifies returns
\* 'Could not validate credentials' when the subject has no account, and the
\* account whose email is the subject when it has one.
C9_AuthorizeResolvesSubject ==
    (/\ last.op = "read_users_me"
     /\ Verifies(last.token, last.now)
     /\ ScopeOf(last.token) = ACCESS_SCOPE
     /\ SubOf(last.token) \in Emails)
    => IF last.pre[SubOf(last.token)] = None
       THEN last.detail = CREDENTIALS /\ last.user = None
       ELSE /\ last.detail = OK
            /\ last.user = last.pre[SubOf(last.token)]
            /\ last.user.email = SubOf(last.token)

C9_Witness ==
    /\ last.op = "read_users_me"
    /\ Verifies(last.token, last.now)
    /\ ScopeOf(last.token) = ACCESS_SCOPE
    /\ SubOf(last.token) \in Emails
    /\ last.pre[SubOf(last.token)] = None
    /\ \E e \in Emails : last.pre[e] # None
    /\ last.detail = CREDENTIALS

\* C10: redeeming a confirmation token that verifies, for an existing
\* account, succeeds and leaves the account confirmed; redeeming the same
\* token again right after succeeds too and changes no account.
C10_ConfirmationIdempotent ==
    [][(/\ nops' = nops + 1
        /\ last'.op = "confirmed_email"
        /\ Verifies(last'.token, clock')
        /\ IsConfirmationToken(last'.token)
        /\ HasAccount(SubOf(last'.token), users))
       => (/\ last'.detail = OK
           /\ users'[SubOf(last'.token)].confirmed
           /\ (last.op = "confirmed_email" /\ last.detail = OK /\ last.token = last'.token
                  => users' = users /\ users[SubOf(last'.token)].confirmed))]_vars

C10_Witness ==
    /\ last.op = "confirmed_email" /\ last.detail = OK
    /\ Verifies(last.token, last.now)
    /\ IsConfirmationToken(last.token)
    /\ last.message = "Your email is already confirmed"
    /\ last.pre[SubOf(last.token)].confirmed
    /\ users = last.pre

\* The lifetime a constructor call asked for: expires_delta, or the fixed
\* seven days of a confirmation token
TtlOf(c) == IF c.kind = "email" THEN EMAIL_TTL ELSE c.ttl
\* The account the verifying operation needs (the authorizer looks it up)
Resolvable(c) ==
    c.data # NoData /\ (c.kind = "access" => HasAccount(c.data.sub, users))
\* The outcome of the verifying operation of a kind for an expired token
ExpiredDetail(kind) ==
    IF kind = "email" THEN INVALID_EMAIL_TOKEN ELSE CREDENTIALS

\* C11: a token constructed at t0 with a lifetime T >= 1 (the fixed seven
\* days for a confirmation token) is accepted by the operation that verifies
\* its kind at t0 + T - 1 and rejected there at t0 + T + 1.
C11_Lifetime ==
    (call.fn = "create_token" /\ call.verified /\ Resolvable(call)
        /\ TtlOf(call) >= 1)
    => /\ call.at = call.t0 + TtlOf(call) - 1 => call.detail = OK
       /\ call.at = call.t0 + TtlOf(call) + 1
            => call.detail = ExpiredDetail(call.kind)

C11_Witness ==
    /\ call.fn = "create_token" /\ call.verified /\ Resolvable(call)
    /\ call.kind = "access" /\ call.ttl >= 2
    /\ call.at = call.t0 + call.ttl + 1
    /\ call.detail = CREDENTIALS

\* C12: a token of kind access or refresh that is verified in the second it
\* was constructed in yields the subject it was constructed for and the scope
\* of its kind, and its verifying operation accepts it.
C12_RoundTrip ==
    (call.fn = "create_token" /\ call.verified /\ Resolvable(call)
        /\ call.kind \in {"access", "refresh"} /\ call.at = call.t0)
    => /\ call.detail = OK
       /\ call.sub = call.data.sub
       /\ call.scope = (IF call.kind = "access" THEN ACCESS_SCOPE
                        ELSE REFRESH_SCOPE)

C12_Witness ==
    /\ call.fn = "create_token" /\ call.verified
    /\ call.kind = "refresh" /\ call.at = call.t0
    /\ call.data # NoData /\ call.sub = "other@x.com"
    /\ call.scope = REFRESH_SCOPE /\ call.detail = OK

\* C13: a validly signed, unexpired confirmation token (no scope) presented
\* as the bearer of an authorized route or of refresh_token is never
\* accepted: no account is resolved, no token pair is returned and the
\* directory is left as it was.
C13_ConfirmationTokenNotBearer ==
    (last.op \in {"read_users_me", "update_avatar_user", "refresh_token"}
        /\ IsConfirmationToken(last.token)
        /\ Verifies(last.token, last.now))
    => /\ last.detail # OK
       /\ last.user = None
       /\ NoTokens(last)
       /\ users = last.pre

C13_Witness ==
    /\ last.op = "read_users_me"
    /\ IsConfirmationToken(last.token)
    /\ Verifies(last.token, last.now)
    /\ HasAccount(SubOf(last.token), last.pre)
    /\ last.pre[SubOf(last.token)].confirmed
    /\ last.detail # OK /\ NoTokens(last)

\* C14: every token that fails verification in refresh_token ends the
\* request in one of the rejections of decode_refresh_token, a token without
\* a scope or without a subject included; never in an unhandled error.
\* (Violated: payload['scope'] and payload['sub'] raise KeyError.)
C14_RefreshFailuresAreRejections ==
    (last.op = "refresh_token"
        /\ ~(Verifies(last.token, last.now)
                /\ ScopeOf(last.token) = REFRESH_SCOPE
                /\ SubOf(last.token) # ""))
    => last.detail \in {CREDENTIALS, INVALID_SCOPE}

\* C15: a validly signed, unexpired access or refresh token that login or
\* refresh_token gave out, presented to confirmed_email, is rejected: it
\* yields no email and no account changes.
\* (Violated: get_email_from_token never looks at the scope.)
C15_ScopedTokenNotRedeemable ==
    (last.op = "confirmed_email"
        /\ last.token \in tokens
        /\ Verifies(last.token, last.now)
        /\ ScopeOf(last.token) \in {ACCESS_SCOPE, REFRESH_SCOPE})
    => /\ last.detail # OK
       /\ users = last.pre

\* Why jwt.decode refuses a token: no JWT at all, a signature that does not
\* verify, or exp in the past; "" when it does not refuse
FailKind(t, now) ==
    IF t.sig = "malformed" THEN "MalformedToken"
    ELSE IF t.sig # "valid" THEN "BadSignature"
    ELSE IF t.claims.exp < now THEN "ExpiredToken"
    ELSE ""

\* C16 as claimed: two refresh_token requests whose tokens jwt.decode refuses
\* for different reasons (expired, bad signature, malformed) end in different
\* outcomes. (Violated: one except clause answers them all.)
C16_GranularFailures ==
    [][(last.op = "refresh_token" /\ last'.op = "refresh_token"
            /\ nops' = nops + 1
            /\ FailKind(last.token, last.now) # ""
            /\ FailKind(last'.token, last'.now) # ""
            /\ FailKind(last.token, last.now) # FailKind(last'.token, last'.now))
        => last'.detail # last.detail]_vars

\* C16 amended: in refresh_token an expired token, a token with a bad
\* signature and a malformed token all end in the one outcome 'Could not
\* validate credentials'; only a verified token of another scope is told
\* apart ('Invalid scope for token').
C16_FlattenedFailures ==
    /\ (last.op = "refresh_token" /\ FailKind(last.token, last.now) # "")
        => last.detail = CREDENTIALS
    /\ (last.op = "refresh_token" /\ FailKind(last.token, last.now) = ""
            /\ ScopeOf(last.token) = ACCESS_SCOPE)
        => (last.detail = INVALID_SCOPE /\ INVALID_SCOPE # CREDENTIALS)

C16_Witness ==
    /\ last.op = "refresh_token"
    /\ FailKind(last.token, last.now) = "ExpiredToken"
    /\ ScopeOf(last.token) = REFRESH_SCOPE
    /\ last.token \in tokens
    /\ last.detail = CREDENTIALS

\* C17: after a login that replaced the refresh token stored for the account
\* (rtA) by the one it returned (rtB), refresh_token with rtA is rejected with
\* 'Invalid refresh token'. (Violated: two logins in one second return the
\* same string, and rtA is then the stored token.)
C17_SingleActiveRefreshToken ==
    [][(last.op = "login" /\ last.detail = OK
            /\ last.pre[last.email].refresh_token # None
            /\ nops' = nops + 1
            /\ last'.op = "refresh_token"
            /\ last'.token = last.pre[last.email].refresh_token
            /\ Verifies(last'.token, last'.now))
        => last'.detail = INVALID_REFRESH]_vars

\* C18: an account appears only through signup and with confirmed = FALSE;
\* the flag turns TRUE only in a confirmed_email request whose token verifies
\* and has the account's email as subject (of the tokens the service gave
\* out, only a confirmation token can do that); a confirmed account stays
\* confirmed, whatever request or step comes next.
C18_ConfirmationLifecycle ==
    [][\A e \in Emails :
        /\ (users[e] = None /\ users'[e] # None)
            => (last'.op = "signup" /\ ~users'[e].confirmed)
        /\ (users[e] # None /\ ~users[e].confirmed
                /\ users'[e] # None /\ users'[e].confirmed)
            => /\ last'.op = "confirmed_email"
               /\ nops' = nops + 1
               /\ Verifies(last'.token, last'.now)
               /\ SubOf(last'.token) = e
               /\ last'.token \in tokens => IsConfirmationToken(last'.token)
        /\ (users[e] # None /\ users[e].confirmed)
            => (users'[e] # None /\ users'[e].confirmed)]_vars

C18_Witness ==
    /\ last.op = "confirmed_email"
    /\ last.token \in tokens
    /\ IsConfirmationToken(last.token)
    /\ HasAccount(SubOf(last.token), last.pre)
    /\ ~last.pre[SubOf(last.token)].confirmed
    /\ users[SubOf(last.token)].confirmed

\* C19: signup with an email that has an account ends in 'Account already
\* exists', writes nothing and queues no mail; signup with a new email
\* creates the account with a hash of the password as its credential,
\* queues one mail to that email and leaves the other accounts alone.
C19_SignupConflict ==
    [][(last'.op = "signup" /\ nops' = nops + 1)
        => LET e == last'.email IN
           IF users[e] # None
           THEN /\ last'.detail = ALREADY_EXISTS
                /\ users' = users
                /\ outbox' = outbox
           ELSE /\ last'.detail = OK
                /\ users'[e] # None
                /\ users'[e].password
                     \in {get_password_hash(last'.password, salt) : salt \in Salts}
                /\ users'[e].password.scheme = "bcrypt"
                /\ outbox' = Append(outbox, e)
                /\ \A o \in Emails \ {e} : users'[o] = users[o]]_vars

C19_Witness ==
    /\ last.op = "signup"
    /\ last.detail = ALREADY_EXISTS
    /\ last.pre[last.email] # None
    /\ last.pre[last.email].refresh_token # None
    /\ last.password # last.pre[last.email].password.secret
    /\ users = last.pre

OwnedBy(user, db) == {c \in db : c.user_id = user.id}
NotOwnedBy(user, db) == {c \in db : c.user_id # user.id}

\* C21: get_contact, update_contact and delete_contact on an id that is
\* absent or belongs to another user end in 'Contact not found' and leave
\* the table as it was; get_contacts and search_contacts return rows of the
\* acting user only; no call returns or changes a row of another user.
C21_TenantIsolation ==
    last.op \in {"create_contact", "get_contact", "get_contacts",
                 "update_contact", "delete_contact", "search_contacts"}
    => /\ (last.op \in {"get_contact", "update_contact", "delete_contact"}
              /\ ~\E c \in OwnedBy(last.user, last.pre) : c.id = last.contact_id)
            => /\ last.detail = CONTACT_NOT_FOUND
               /\ last.result = {}
               /\ contacts = last.pre
       /\ last.op \in {"get_contacts", "search_contacts"}
            => last.result \subseteq OwnedBy(last.user, last.pre)
       /\ last.result \cap NotOwnedBy(last.user, last.pre) = {}
       /\ NotOwnedBy(last.user, contacts) = NotOwnedBy(last.user, last.pre)

C21_Witness ==
    /\ last.op = "update_contact"
    /\ \E c \in NotOwnedBy(last.user, last.pre) :
          c.id = last.contact_id /\ c.phone_number # last.body.phone_number
    /\ last.detail = CONTACT_NOT_FOUND
    /\ contacts = last.pre

\* C22: create_contact for a user who has a contact with the phone number
\* of the request ends in 'Phone number already exists' and adds nothing;
\* otherwise, whatever other users have, it adds exactly one row, owned by
\* the acting user and with the fields of the request.
C22_CreateContact ==
    last.op = "create_contact"
    => IF \E c \in OwnedBy(last.user, last.pre) :
             c.phone_number = last.body.phone_number
       THEN last.detail = PHONE_EXISTS /\ contacts = last.pre
       ELSE /\ last.detail = OK
            /\ \E c \in contacts \ last.pre :
                  /\ contacts = last.pre \cup {c}
                  /\ last.result = {c}
                  /\ c.user_id = last.user.id
                  /\ c.first_name = last.body.first_name
                  /\ c.last_name = last.body.last_name
                  /\ c.email = last.body.email
                  /\ c.phone_number = last.body.phone_number
                  /\ \A o \in last.pre : o.id # c.id

C22_Witness ==
    /\ last.op = "create_contact"
    /\ last.detail = OK
    /\ \E c \in NotOwnedBy(last.user, last.pre) :
          c.phone_number = last.body.phone_number
    /\ Cardinality(contacts) = Cardinality(last.pre) + 1

\* C23: of two refresh_token requests that present the same refresh token,
\* at most one succeeds, however their steps interleave. (Violated: both
\* read the row before either writes it; and one after the other within one
\* second, the token written is the token presented.)
C23_SingleUseUnderConcurrency ==
    \A i, j \in Reqs :
        (i # j /\ inflight[i].pc = "done" /\ inflight[j].pc = "done"
            /\ inflight[i].token = inflight[j].token)
        => ~(inflight[i].detail = OK /\ inflight[j].detail = OK)

\* C24: while an account has no stored refresh token (as after a refresh
\* that failed with 'Invalid refresh token'), every refresh_token request
\* with a token of that subject fails, with 'Invalid refresh token' when the
\* token is a refresh token that verifies, and the stored token stays null
\* until a login of that account succeeds; refresh_token with the refresh
\* token of the latest successful login, unexpired, succeeds.
C24_RevocationTerminal ==
    [][/\ \A e \in Emails :
            (HasAccount(e, users) /\ users[e].refresh_token = None)
            => /\ (last'.op = "refresh_token" /\ nops' = nops + 1
                      /\ SubOf(last'.token) = e)
                    => /\ last'.detail # OK
                       /\ (Verifies(last'.token, last'.now)
                              /\ ScopeOf(last'.token) = REFRESH_SCOPE)
                            => last'.detail = INVALID_REFRESH
                       /\ users'[e].refresh_token = None
               /\ users'[e].refresh_token # None
                    => /\ last'.op = "login" /\ nops' = nops + 1
                       /\ last'.detail = OK /\ last'.email = e
       /\ (last.op = "login" /\ last.detail = OK
              /\ last'.op = "refresh_token" /\ nops' = nops + 1
              /\ last'.token = last.refresh_token
              /\ Verifies(last'.token, last'.now))
            => last'.detail = OK]_vars

C24_Witness ==
    /\ last.op = "refresh_token"
    /\ last.token \in tokens
    /\ Verifies(last.token, last.now)
    /\ ScopeOf(last.token) = REFRESH_SCOPE
    /\ HasAccount(SubOf(last.token), last.pre)
    /\ last.pre[SubOf(last.token)].refresh_token = None
    /\ last.detail = INVALID_REFRESH

\* C25: the refresh token a successful login or refresh_token returns
\* differs from the one stored on the account before. (Violated: a token
\* signed in the second the stored one was signed in is the same string.)
C25_FreshRefreshToken ==
    (last.op \in {"login", "refresh_token"} /\ last.detail = OK
        /\ last.pre[SubOf(last.refresh_token)].refresh_token # None)
    => last.refresh_token # last.pre[SubOf(last.refresh_token)].refresh_token

\* C26: refresh_token with a refresh token that verifies and whose subject
\* has no account ends in a rejection and changes no account. (Violated:
\* get_user_by_email returns None and user.refresh_token raises.)
C26_UnknownSubjectRejected ==
    (last.op = "refresh_token"
        /\ Verifies(last.token, last.now)
        /\ ScopeOf(last.token) = REFRESH_SCOPE
        /\ SubOf(last.token) # ""
        /\ ~HasAccount(SubOf(last.token), last.pre))
    => /\ last.detail \in {CREDENTIALS, INVALID_SCOPE, INVALID_REFRESH}
       /\ users = last.pre

\* C27: request_email for an email without an account ends as a normal
\* response or a rejection, queues no mail and changes no account.
\* (Violated: user.confirmed is read on None.)
C27_RequestEmailUnknown ==
    (last.op = "request_email" /\ ~HasAccount(last.email, last.pre))
    => /\ last.detail # ATTRIBUTE_ERROR
       /\ users = last.pre

\* C28: in every state an account with a stored refresh token is confirmed,
\* and the stored token is a refresh token whose subject is the account's
\* own email.
C28_StoredTokenOwner ==
    \A e \in Emails :
        (HasAccount(e, users) /\ users[e].refresh_token # None)
        => /\ users[e].confirmed
           /\ ScopeOf(users[e].refresh_token) = REFRESH_SCOPE
           /\ SubOf(users[e].refresh_token) = e

C28_Witness ==
    /\ last.op = "login" /\ last.detail = NOT_CONFIRMED
    /\ users[last.email].refresh_token = None
    /\ \E e \in Emails :
          HasAccount(e, users) /\ users[e].refresh_token # None

\* C29: a login that fails ('Invalid email', 'Email not confirmed' or
\* 'Invalid password') returns no tokens and leaves every account, its
\* stored refresh token and confirmed flag included, as it was.
C29_FailedLoginFrame ==
    (last.op = "login" /\ last.detail # OK)
    => /\ last.detail \in {INVALID_EMAIL, NOT_CONFIRMED, INVALID_PASSWORD}
       /\ NoTokens(last)
       /\ users = last.pre

C29_Witness ==
    /\ last.op = "login" /\ last.detail = INVALID_PASSWORD
    /\ last.pre[last.email].refresh_token # None
    /\ users[last.email].refresh_token = last.pre[last.email].refresh_token
    /\ NoTokens(last)

\* C30: a token constructed with an expires_delta, 0 included, expires at
\* its iat plus that value, the default lifetime being used only without an
\* expires_delta; constructed with 0 it is rejected one second later.
\* (Violated: `if expires_delta:` takes 0 for no value.)
C30_ExplicitTtlHonoured ==
    (call.fn = "create_token" /\ call.kind \in {"access", "refresh"})
    => /\ call.ttl # NoDelta
            => call.token.claims.exp = call.token.claims.iat + call.ttl
       /\ call.ttl = NoDelta
            => call.token.claims.exp = call.token.claims.iat
                 + (IF call.kind = "access" THEN ACCESS_TTL ELSE REFRESH_TTL)
       /\ (call.verified /\ call.ttl = 0 /\ call.at = call.t0 + 1)
            => call.detail = CREDENTIALS

\* C32: in every state reached by create_contact, update_contact and
\* delete_contact no user has two contacts with the same phone number.
\* (Violated: update_contact writes the new phone number without the look-up
\* create_contact makes.)
C32_PhoneUniquePerUser ==
    \A c1, c2 \in contacts :
        (c1.user_id = c2.user_id /\ c1.phone_number = c2.phone_number)
        => c1 = c2

============================================================================
